---- MODULE Spec2Model ----
(***************************************************************************)
(* dotlink (src/src/main.rs): a manifest maps files kept in a store to     *)
(* the places where they must appear as symlinks.  The model holds the     *)
(* filesystem, the manifest on disk and in memory, and one action per      *)
(* command of the tool; each action runs the whole handler.                *)
(***************************************************************************)
EXTENDS Integers, Sequences, FiniteSets, TLC

(***************************************************************************)
(* Paths.  A path is what a PathBuf compares as: whether it has a root,    *)
(* and its components; a component is a sequence of characters.            *)
(***************************************************************************)
Dot == <<".">>
DotDot == <<".", ".">>

Abs(cs) == [abs |-> TRUE, comps |-> cs]
Rel(cs) == [abs |-> FALSE, comps |-> cs]

\* The names used by the modelled world.
nS == <<"s">>
nH == <<"h">>
nL == <<"l">>
nA == <<"a">>
nB == <<"b">>
nTilde == <<"~">>

\* The working directory of the process and the HOME variable.
Cwd == << >>
Home == <<"/", "h">>

\* The number of symbolic links one path resolution follows before ELOOP.
MaxFollow == 3

Front(s) == SubSeq(s, 1, Len(s) - 1)
Last(s) == s[Len(s)]

\* Path::join: an absolute argument replaces the base.
join(base, p) == IF p.abs THEN p ELSE [abs |-> base.abs, comps |-> base.comps \o p.comps]

\* Path::parent: the path without its last component.
parent(p) == [abs |-> p.abs, comps |-> Front(p.comps)]
HasParent(p) == p.comps # << >>

\* Path::file_name: the last component, unless the path ends in "..".
HasFileName(p) == p.comps # << >> /\ Last(p.comps) # DotDot
file_name(p) == Last(p.comps)

\* path_clean: "." segments go, ".." removes the segment before it.
RECURSIVE CleanComps(_, _, _)
CleanComps(isAbs, done, rest) ==
  IF rest = << >> THEN done
  ELSE LET c == Head(rest) IN
       IF c = Dot THEN CleanComps(isAbs, done, Tail(rest))
       ELSE IF c = DotDot
            THEN IF done # << >> /\ Last(done) # DotDot
                 THEN CleanComps(isAbs, Front(done), Tail(rest))
                 ELSE IF isAbs THEN CleanComps(isAbs, done, Tail(rest))
                      ELSE CleanComps(isAbs, Append(done, c), Tail(rest))
            ELSE CleanComps(isAbs, Append(done, c), Tail(rest))

clean(p) ==
  LET cs == CleanComps(p.abs, << >>, p.comps)
  IN  IF ~p.abs /\ cs = << >> THEN Rel(<<Dot>>) ELSE [abs |-> p.abs, comps |-> cs]

(***************************************************************************)
(* Paths as text: to_str, str::replace and PathBuf::from.                  *)
(***************************************************************************)
RECURSIVE JoinComps(_)
JoinComps(cs) ==
  IF cs = << >> THEN << >>
  ELSE IF Len(cs) = 1 THEN cs[1]
  ELSE cs[1] \o <<"/">> \o JoinComps(Tail(cs))

to_str(p) == IF p.abs THEN <<"/">> \o JoinComps(p.comps) ELSE JoinComps(p.comps)

RECURSIVE replace(_, _, _)
replace(str, ch, with) ==
  IF str = << >> THEN << >>
  ELSE IF Head(str) = ch THEN with \o replace(Tail(str), ch, with)
  ELSE <<Head(str)>> \o replace(Tail(str), ch, with)

\* Split the text at "/"; empty pieces are no components.
RECURSIVE SplitComps(_, _)
SplitComps(str, cur) ==
  IF str = << >> THEN IF cur = << >> THEN << >> ELSE <<cur>>
  ELSE IF Head(str) = "/"
       THEN IF cur = << >> THEN SplitComps(Tail(str), << >>)
            ELSE <<cur>> \o SplitComps(Tail(str), << >>)
       ELSE SplitComps(Tail(str), Append(cur, Head(str)))

PathBuf_from(str) ==
  [abs |-> str # << >> /\ Head(str) = "/", comps |-> SplitComps(str, << >>)]

\* expand_tilde: every "~" of the text becomes the value of HOME.
expand_tilde(path) == replace(to_str(path), "~", Home)

(***************************************************************************)
(* The filesystem: a function from the locations that exist (sequences of  *)
(* components below "/") to what is there.  "/" itself is a directory.     *)
(***************************************************************************)
NoPath == Rel(<< >>)
File(d) == [kind |-> "file", data |-> d, val |-> NoPath]
Dir == [kind |-> "dir", data |-> "", val |-> NoPath]
Link(v) == [kind |-> "link", data |-> "", val |-> v]

IsDirAt(f, loc) == loc = << >> \/ (loc \in DOMAIN f /\ f[loc].kind = "dir")
IsPrefix(a, b) == Len(a) <= Len(b) /\ SubSeq(b, 1, Len(a)) = a
Children(f, loc) == {l \in DOMAIN f : Len(l) = Len(loc) + 1 /\ IsPrefix(loc, l)}

\* Path resolution, the kernel's walk: a symlink on the way is followed, the
\* last component only when followLast.  The result names the location the
\* path ends at; for ENOENT, the location that is missing and whether it was
\* the last component.
RECURSIVE Walk(_, _, _, _, _)
Walk(f, cur, rest, followLast, fuel) ==
  IF rest = << >> THEN [err |-> "ok", loc |-> cur, atLast |-> TRUE]
  ELSE LET c == Head(rest)
           t == Tail(rest)
           n == Append(cur, c)
       IN  IF ~IsDirAt(f, cur) THEN [err |-> "ENOTDIR", loc |-> cur, atLast |-> FALSE]
           ELSE IF c = Dot THEN Walk(f, cur, t, followLast, fuel)
           ELSE IF c = DotDot
                THEN Walk(f, IF cur = << >> THEN cur ELSE Front(cur), t, followLast, fuel)
           ELSE IF n \notin DOMAIN f
                THEN [err |-> "ENOENT", loc |-> n, atLast |-> t = << >>]
           ELSE IF f[n].kind = "link" /\ (t # << >> \/ followLast)
                THEN IF fuel = 0
                     THEN [err |-> "ELOOP", loc |-> n, atLast |-> FALSE]
                     ELSE Walk(f, IF f[n].val.abs THEN << >> ELSE cur,
                               f[n].val.comps \o t, followLast, fuel - 1)
           ELSE Walk(f, n, t, followLast, fuel)

Start(p) == IF p.abs THEN << >> ELSE Cwd
Lstat(f, p) == Walk(f, Start(p), p.comps, FALSE, MaxFollow)
Stat(f, p) == Walk(f, Start(p), p.comps, TRUE, MaxFollow)
NodeAt(f, loc) == IF loc = << >> THEN Dir ELSE f[loc]

\* Path::exists / fs::metadata(..).is_ok(): follows symlinks, any error is "no".
exists(f, p) == Stat(f, p).err = "ok"
is_dir(f, p) == exists(f, p) /\ IsDirAt(f, Stat(f, p).loc)

\* fs::symlink_metadata: the object at the path itself.
symlink_metadata(f, p) ==
  LET r == Lstat(f, p)
  IN  IF r.err = "ok" THEN [err |-> "ok", kind |-> NodeAt(f, r.loc).kind]
      ELSE [err |-> r.err, kind |-> "none"]

\* fs::read_link: the stored value of the link, as written.
read_link(f, p) ==
  LET r == Lstat(f, p)
  IN  IF r.err # "ok" THEN [err |-> r.err, val |-> NoPath]
      ELSE IF NodeAt(f, r.loc).kind # "link" THEN [err |-> "EINVAL", val |-> NoPath]
      ELSE [err |-> "ok", val |-> f[r.loc].val]

\* fs::canonicalize: the absolute location with every symlink resolved.
canonicalize(f, p) ==
  LET r == Stat(f, p)
  IN  IF r.err = "ok" THEN [err |-> "ok", path |-> Abs(r.loc)]
      ELSE [err |-> r.err, path |-> NoPath]

Without(f, locs) == [l \in DOMAIN f \ locs |-> f[l]]
With(f, loc, node) == [l \in DOMAIN f \cup {loc} |-> IF l = loc THEN node ELSE f[l]]

\* symlink(2): a new link holding `value` at `linkpath`, which must not exist.
symlink(f, value, linkpath) ==
  LET r == Lstat(f, linkpath)
  IN  IF r.err = "ok" THEN [err |-> "EEXIST", fs |-> f]
      ELSE IF r.err = "ENOENT" /\ r.atLast THEN [err |-> "ok", fs |-> With(f, r.loc, Link(value))]
      ELSE [err |-> r.err, fs |-> f]

\* mkdir(2).
mkdir(f, p) ==
  LET r == Lstat(f, p)
  IN  IF r.err = "ok" THEN [err |-> "EEXIST", fs |-> f]
      ELSE IF r.err = "ENOENT" /\ r.atLast THEN [err |-> "ok", fs |-> With(f, r.loc, Dir)]
      ELSE [err |-> r.err, fs |-> f]

\* fs::create_dir_all (DirBuilder::create_dir_all of the standard library).
RECURSIVE create_dir_all(_, _)
create_dir_all(f, p) ==
  IF ~p.abs /\ p.comps = << >> THEN [err |-> "ok", fs |-> f]
  ELSE LET m == mkdir(f, p) IN
       IF m.err = "ok" THEN m
       ELSE IF m.err = "ENOENT"
            THEN IF ~HasParent(p) THEN [err |-> "EIO", fs |-> f]
                 ELSE LET up == create_dir_all(f, parent(p)) IN
                      IF up.err # "ok" THEN up
                      ELSE LET m2 == mkdir(up.fs, p) IN
                           IF m2.err = "ok" THEN m2
                           ELSE IF is_dir(up.fs, p) THEN [err |-> "ok", fs |-> up.fs]
                           ELSE m2
       ELSE IF is_dir(f, p) THEN [err |-> "ok", fs |-> f]
       ELSE m

\* unlink(2), as fs::remove_file calls it.
remove_file(f, p) ==
  LET r == Lstat(f, p)
  IN  IF r.err # "ok" THEN [err |-> r.err, fs |-> f]
      ELSE IF IsDirAt(f, r.loc) THEN [err |-> "EISDIR", fs |-> f]
      ELSE [err |-> "ok", fs |-> Without(f, {r.loc})]

\* rename(2): neither last component is followed; an existing file or empty
\* directory at the destination is replaced; a directory moves with its tree.
Subtree(f, loc) == {l \in DOMAIN f : IsPrefix(loc, l)}
Moved(l, src, dst) == dst \o SubSeq(l, Len(src) + 1, Len(l))

rename(f, from, to) ==
  LET a == Lstat(f, from)
      b == Lstat(f, to)
  IN  IF a.err # "ok" THEN [err |-> a.err, fs |-> f]
      ELSE IF a.loc = << >> THEN [err |-> "EBUSY", fs |-> f]
      ELSE IF ~(b.err = "ok" \/ (b.err = "ENOENT" /\ b.atLast)) THEN [err |-> b.err, fs |-> f]
      ELSE IF b.loc = a.loc THEN [err |-> "ok", fs |-> f]
      ELSE IF IsDirAt(f, a.loc) /\ IsPrefix(a.loc, b.loc) THEN [err |-> "EINVAL", fs |-> f]
      ELSE IF b.err = "ok" /\ b.loc = << >> THEN [err |-> "EBUSY", fs |-> f]
      ELSE IF b.err = "ok" /\ IsDirAt(f, a.loc) /\ ~IsDirAt(f, b.loc)
           THEN [err |-> "ENOTDIR", fs |-> f]
      ELSE IF b.err = "ok" /\ ~IsDirAt(f, a.loc) /\ IsDirAt(f, b.loc)
           THEN [err |-> "EISDIR", fs |-> f]
      ELSE IF b.err = "ok" /\ IsDirAt(f, b.loc) /\ Children(f, b.loc) # {}
           THEN [err |-> "ENOTEMPTY", fs |-> f]
      ELSE LET tree == Subtree(f, a.loc)
               kept == (DOMAIN f \ tree) \ {b.loc}
               new == {Moved(l, a.loc, b.loc) : l \in tree}
           IN  [err |-> "ok",
                fs |-> [l \in kept \cup new |->
                          IF l \in new
                          THEN f[a.loc \o SubSeq(l, Len(b.loc) + 1, Len(l))]
                          ELSE f[l]]]

(***************************************************************************)
(* The manifest (Config): the root setting and the entries, a map from the *)
(* source key to the declared target.                                      *)
(***************************************************************************)
None == [some |-> FALSE, path |-> NoPath]
Some(p) == [some |-> TRUE, path |-> p]

\* The DOTLINK_ROOT environment variable.
EnvRoot == Some(Abs(<<nS>>))

Put(m, k, v) == [x \in DOMAIN m \cup {k} |-> IF x = k THEN v ELSE m[x]]
Remove(m, ks) == [x \in DOMAIN m \ ks |-> m[x]]

\* An invocation in progress: the filesystem, the manifest in memory and on
\* disk, the aggregate flag, how it ended, the number of manifest writes and
\* what was reported for each item.
Begin(f, d) ==
  [fs |-> f, cfg |-> d, disk |-> d, flag |-> TRUE, err |-> "ok", writes |-> 0, outs |-> << >>]
Fail(st, e) == [st EXCEPT !.err = e]
Report(st, item, what) == [st EXCEPT !.outs = Append(@, [item |-> item, out |-> what])]

\* Config::get_root: the configured root, else the environment's, canonicalized.
get_root(f, cfg) ==
  LET r == IF cfg.root.some THEN cfg.root ELSE EnvRoot
  IN  IF ~r.some THEN [err |-> "panic", path |-> NoPath]
      ELSE canonicalize(f, r.path)

\* Config::entries, for one key: (source.clean(), base.join(source.clean()), target.clean()).
entries(base, cfg, key) ==
  [name |-> clean(key), source |-> join(base, clean(key)), target |-> clean(cfg.entries[key])]

(***************************************************************************)
(* fix                                                                     *)
(***************************************************************************)
\* A fix that repairs a mismatched link as well: it replaces the link.
fix_entry_relinks(st, base, key) ==
  LET e == entries(base, st.cfg, key)
      target_path == PathBuf_from(expand_tilde(e.target))
      meta == symlink_metadata(st.fs, target_path)
      rm == remove_file(st.fs, target_path)
      ln == symlink(rm.fs, e.source, target_path)
  IN  IF ~exists(st.fs, e.source)
      THEN Report([st EXCEPT !.flag = FALSE], key, "source_missing")
      ELSE IF meta.err = "ok" /\ meta.kind = "link"
      THEN IF read_link(st.fs, target_path).val # e.source
           THEN Report([st EXCEPT !.fs = ln.fs], key, "created")
           ELSE Report(st, key, "ok")
      ELSE IF meta.err = "ok"
      THEN Report([st EXCEPT !.flag = FALSE], key, "conflict")
      ELSE Report([st EXCEPT !.flag = FALSE], key, "check_error")

\* A fix that creates a missing link only while no entry before it failed.
fix_entry_while_ok(st, base, key) ==
  LET e == entries(base, st.cfg, key)
      target_path == PathBuf_from(expand_tilde(e.target))
      meta == symlink_metadata(st.fs, target_path)
      up == IF HasParent(target_path) THEN create_dir_all(st.fs, parent(target_path))
            ELSE [err |-> "ok", fs |-> st.fs]
      ln == symlink(up.fs, e.source, target_path)
  IN  IF ~exists(st.fs, e.source)
      THEN Report([st EXCEPT !.flag = FALSE], key, "source_missing")
      ELSE IF meta.err = "ok"
      THEN IF meta.kind = "link"
           THEN IF read_link(st.fs, target_path).val # e.source
                THEN Report([st EXCEPT !.flag = FALSE], key, "mismatch")
                ELSE Report(st, key, "ok")
           ELSE Report([st EXCEPT !.flag = FALSE], key, "conflict")
      ELSE IF meta.err = "ENOENT" /\ st.flag
      THEN IF up.err # "ok"
           THEN Report(Fail([st EXCEPT !.fs = up.fs], up.err), key, "io_error")
           ELSE IF ln.err # "ok"
           THEN Report(Fail([st EXCEPT !.fs = ln.fs], ln.err), key, "io_error")
           ELSE Report([st EXCEPT !.fs = ln.fs], key, "created")
      ELSE Report([st EXCEPT !.flag = FALSE], key, "check_error")

\* The body of fix's loop for one entry.
fix_entry(st, base, key) ==
  LET e == entries(base, st.cfg, key)
      target_path == PathBuf_from(expand_tilde(e.target))
      meta == symlink_metadata(st.fs, target_path)
  IN  IF ~exists(st.fs, e.source)
      THEN Report([st EXCEPT !.flag = FALSE], key, "source_missing")
      ELSE IF meta.err = "ok"
      THEN IF meta.kind = "link"
           THEN IF read_link(st.fs, target_path).val # e.source
                THEN Report([st EXCEPT !.flag = FALSE], key, "mismatch")
                ELSE Report(st, key, "ok")
           ELSE Report([st EXCEPT !.flag = FALSE], key, "conflict")
      ELSE IF meta.err = "ENOENT"
      THEN LET up == IF HasParent(target_path)
                     THEN create_dir_all(st.fs, parent(target_path))
                     ELSE [err |-> "ok", fs |-> st.fs]
               ln == symlink(up.fs, e.source, target_path)
           IN  IF up.err # "ok"
               THEN Report(Fail([st EXCEPT !.fs = up.fs], up.err), key, "io_error")
               ELSE IF ln.err # "ok"
               THEN Report(Fail([st EXCEPT !.fs = ln.fs], ln.err), key, "io_error")
               ELSE Report([st EXCEPT !.fs = ln.fs], key, "created")
      ELSE Report([st EXCEPT !.flag = FALSE], key, "check_error")

RECURSIVE fix_loop(_, _, _)
fix_loop(st, base, order) ==
  IF order = << >> \/ st.err # "ok" THEN st
  ELSE fix_loop(fix_entry(st, base, Head(order)), base, Tail(order))

\* fix: `order` is the order in which the HashMap yields the entries.
fix(st, order) ==
  LET base == get_root(st.fs, st.cfg)
  IN  IF base.err # "ok" THEN Fail(st, base.err) ELSE fix_loop(st, base.path, order)

(***************************************************************************)
(* validate                                                                *)
(***************************************************************************)
\* A validate that creates the missing link, as fix does.
validate_entry_repairs(st, base, key) == fix_entry(st, base, key)

\* The body of validate's loop for one entry.
validate_entry(st, base, key) ==
  LET e == entries(base, st.cfg, key)
      target_path == PathBuf_from(expand_tilde(e.target))
      meta == symlink_metadata(st.fs, target_path)
  IN  IF ~exists(st.fs, e.source)
      THEN Report([st EXCEPT !.flag = FALSE], key, "source_missing")
      ELSE IF ~exists(st.fs, target_path)
      THEN Report(st, key, "missing_target")
      ELSE IF meta.err # "ok"
      THEN Report(Fail(st, meta.err), key, "io_error")
      ELSE IF meta.kind = "link"
      THEN IF read_link(st.fs, target_path).val # e.source
           THEN Report([st EXCEPT !.flag = FALSE], key, "mismatch")
           ELSE Report(st, key, "ok")
      ELSE Report([st EXCEPT !.flag = FALSE], key, "conflict")

RECURSIVE validate_loop(_, _, _)
validate_loop(st, base, order) ==
  IF order = << >> \/ st.err # "ok" THEN st
  ELSE validate_loop(validate_entry(st, base, Head(order)), base, Tail(order))

validate(st, order) ==
  LET base == get_root(st.fs, st.cfg)
  IN  IF base.err # "ok" THEN Fail(st, base.err) ELSE validate_loop(st, base.path, order)

(***************************************************************************)
(* add                                                                     *)
(***************************************************************************)
\* resolve_targets: the expansion of one pattern.  A pattern here names one
\* path; the expansion yields it when an object is there.
resolve_targets(f, pattern) ==
  IF Lstat(f, pattern).err = "ok" THEN <<pattern>> ELSE << >>

\* fs::write(cfg_path, toml::to_string_pretty(cfg)).
write_cfg(st) == [st EXCEPT !.disk = st.cfg, !.writes = @ + 1]

\* add_one without the fs::write at its end: the entry stays in memory.
add_move_unsaved(st, target, dest_in_root) ==
  LET mv == rename(st.fs, target, dest_in_root)
      s1 == [st EXCEPT !.fs = mv.fs, !.cfg.entries = Put(@, dest_in_root, target)]
      occupied == exists(s1.fs, target) \/ symlink_metadata(s1.fs, target).err = "ok"
      up == IF HasParent(target) THEN create_dir_all(s1.fs, parent(target))
            ELSE [err |-> "ok", fs |-> s1.fs]
      ln == symlink(up.fs, dest_in_root, target)
  IN  IF mv.err # "ok" THEN Report(Fail(st, mv.err), target, "io_error")
      ELSE IF occupied THEN Report(s1, target, "added_nolink")
      ELSE IF up.err # "ok" THEN Report(Fail([s1 EXCEPT !.fs = up.fs], up.err), target, "io_error")
      ELSE IF ln.err # "ok" THEN Report(Fail([s1 EXCEPT !.fs = ln.fs], ln.err), target, "io_error")
      ELSE Report([s1 EXCEPT !.fs = ln.fs], target, "added")

\* add_one, from the rename on: move, insert, link, persist.
add_move(st, target, dest_in_root) ==
  LET mv == rename(st.fs, target, dest_in_root)
      s1 == [st EXCEPT !.fs = mv.fs, !.cfg.entries = Put(@, dest_in_root, target)]
      occupied == exists(s1.fs, target) \/ symlink_metadata(s1.fs, target).err = "ok"
      up == IF HasParent(target) THEN create_dir_all(s1.fs, parent(target))
            ELSE [err |-> "ok", fs |-> s1.fs]
      ln == symlink(up.fs, dest_in_root, target)
  IN  IF mv.err # "ok" THEN Report(Fail(st, mv.err), target, "io_error")
      ELSE IF occupied THEN Report(write_cfg(s1), target, "added_nolink")
      ELSE IF up.err # "ok" THEN Report(Fail([s1 EXCEPT !.fs = up.fs], up.err), target, "io_error")
      ELSE IF ln.err # "ok" THEN Report(Fail([s1 EXCEPT !.fs = ln.fs], ln.err), target, "io_error")
      ELSE Report(write_cfg([s1 EXCEPT !.fs = ln.fs]), target, "added")

add_one(st, candidate, root) ==
  LET canon == canonicalize(st.fs, candidate)
      target == clean(canon.path)
      dest_in_root == join(root, Rel(<<file_name(target)>>))
  IN  IF ~exists(st.fs, candidate) THEN Report(st, candidate, "not_found")
      ELSE IF canon.err # "ok" THEN Report(Fail(st, canon.err), candidate, "io_error")
      ELSE IF ~HasFileName(target) THEN Report(Fail(st, "exit1"), candidate, "no_name")
      ELSE IF dest_in_root \in DOMAIN st.cfg.entries THEN Report(st, target, "rejected")
      ELSE add_move(st, target, dest_in_root)

RECURSIVE add_loop(_, _, _)
add_loop(st, paths, root) ==
  IF paths = << >> \/ st.err # "ok" THEN st
  ELSE add_loop(add_one(st, Head(paths), root), Tail(paths), root)

RECURSIVE expand_all(_, _)
expand_all(f, patterns) ==
  IF patterns = << >> THEN << >>
  ELSE resolve_targets(f, Head(patterns)) \o expand_all(f, Tail(patterns))

\* The patterns of one add are expanded one after the other, each against the
\* filesystem as the candidates before it left it.
RECURSIVE add_patterns(_, _, _)
add_patterns(st, patterns, root) ==
  IF patterns = << >> \/ st.err # "ok" THEN st
  ELSE add_patterns(add_loop(st, resolve_targets(st.fs, Head(patterns)), root),
                    Tail(patterns), root)

add(st, targets, root) ==
  LET cfgroot == get_root(st.fs, st.cfg)
      dotlink_root == IF root.some THEN root.path ELSE cfgroot.path
  IN  IF ~root.some /\ cfgroot.err # "ok" THEN Fail(st, cfgroot.err)
      ELSE IF ~exists(st.fs, dotlink_root) THEN Fail(st, "exit1")
      ELSE add_patterns(st, targets, dotlink_root)

(***************************************************************************)
(* unlink                                                                  *)
(***************************************************************************)
\* The match set: each expanded path canonicalized, or cleaned when that fails.
RECURSIVE targets_to_process(_, _)
targets_to_process(f, paths) ==
  IF paths = << >> THEN {}
  ELSE LET c == canonicalize(f, Head(paths))
       IN  {IF c.err = "ok" THEN c.path ELSE clean(Head(paths))}
             \cup targets_to_process(f, Tail(paths))

\* The loop body without the test for a match: every entry is unlinked.
unlink_entry_any(st, matches, key) ==
  LET target_path_abs == clean(PathBuf_from(expand_tilde(st.cfg.entries[key])))
      meta == symlink_metadata(st.fs, target_path_abs)
      rm == IF meta.err = "ok" /\ meta.kind = "link"
            THEN remove_file(st.fs, target_path_abs)
            ELSE [err |-> "ok", fs |-> st.fs]
      mv == IF exists(rm.fs, key) THEN rename(rm.fs, key, target_path_abs)
            ELSE [err |-> "ok", fs |-> rm.fs]
      what == IF meta.err # "ok"
              THEN IF exists(rm.fs, key) THEN "nolink_moved" ELSE "nolink_nomove"
              ELSE IF meta.kind = "link"
              THEN IF exists(rm.fs, key) THEN "removed_moved" ELSE "removed_nomove"
              ELSE IF exists(rm.fs, key) THEN "warned_moved" ELSE "warned_nomove"
  IN  IF rm.err # "ok" THEN Report(Fail(st, rm.err), key, "io_error")
      ELSE IF mv.err # "ok" THEN Report(Fail([st EXCEPT !.fs = rm.fs], mv.err), key, "io_error")
      ELSE Report([st EXCEPT !.fs = mv.fs], key, what)

\* The loop body if it removed the key and wrote the manifest for each entry
\* as it went.
unlink_entry_saves(st, matches, key) ==
  LET target_path_abs == clean(PathBuf_from(expand_tilde(st.cfg.entries[key])))
      meta == symlink_metadata(st.fs, target_path_abs)
      rm == IF meta.err = "ok" /\ meta.kind = "link"
            THEN remove_file(st.fs, target_path_abs)
            ELSE [err |-> "ok", fs |-> st.fs]
      mv == IF exists(rm.fs, key) THEN rename(rm.fs, key, target_path_abs)
            ELSE [err |-> "ok", fs |-> rm.fs]
      what == IF meta.err # "ok"
              THEN IF exists(rm.fs, key) THEN "nolink_moved" ELSE "nolink_nomove"
              ELSE IF meta.kind = "link"
              THEN IF exists(rm.fs, key) THEN "removed_moved" ELSE "removed_nomove"
              ELSE IF exists(rm.fs, key) THEN "warned_moved" ELSE "warned_nomove"
  IN  IF ~(key \in matches \/ target_path_abs \in matches) THEN st
      ELSE IF rm.err # "ok" THEN Report(Fail(st, rm.err), key, "io_error")
      ELSE IF mv.err # "ok" THEN Report(Fail([st EXCEPT !.fs = rm.fs], mv.err), key, "io_error")
      ELSE Report(write_cfg([st EXCEPT !.fs = mv.fs, !.cfg.entries = Remove(@, {key})]),
                  key, what)

\* The body of unlink's loop for one entry of the manifest.
unlink_entry(st, matches, key) ==
  LET target_path_abs == clean(PathBuf_from(expand_tilde(st.cfg.entries[key])))
      meta == symlink_metadata(st.fs, target_path_abs)
      rm == IF meta.err = "ok" /\ meta.kind = "link"
            THEN remove_file(st.fs, target_path_abs)
            ELSE [err |-> "ok", fs |-> st.fs]
      mv == IF exists(rm.fs, key) THEN rename(rm.fs, key, target_path_abs)
            ELSE [err |-> "ok", fs |-> rm.fs]
      what == IF meta.err # "ok"
              THEN IF exists(rm.fs, key) THEN "nolink_moved" ELSE "nolink_nomove"
              ELSE IF meta.kind = "link"
              THEN IF exists(rm.fs, key) THEN "removed_moved" ELSE "removed_nomove"
              ELSE IF exists(rm.fs, key) THEN "warned_moved" ELSE "warned_nomove"
  IN  IF ~(key \in matches \/ target_path_abs \in matches) THEN st
      ELSE IF rm.err # "ok" THEN Report(Fail(st, rm.err), key, "io_error")
      ELSE IF mv.err # "ok" THEN Report(Fail([st EXCEPT !.fs = rm.fs], mv.err), key, "io_error")
      ELSE Report([st EXCEPT !.fs = mv.fs], key, what)

RECURSIVE unlink_loop(_, _, _)
unlink_loop(st, matches, order) ==
  IF order = << >> \/ st.err # "ok" THEN st
  ELSE unlink_loop(unlink_entry(st, matches, Head(order)), matches, Tail(order))

Items(outs) == {outs[i].item : i \in 1..Len(outs)}

unlink(st, patterns, order) ==
  LET matches == targets_to_process(st.fs, expand_all(st.fs, patterns))
      done == unlink_loop(st, matches, order)
  IN  IF matches = {} THEN st
      ELSE IF done.err # "ok" THEN done
      ELSE IF done.outs # << >>
           THEN write_cfg([done EXCEPT !.cfg.entries = Remove(@, Items(done.outs))])
      ELSE done

(***************************************************************************)
(* The world the tool runs in.                                             *)
(***************************************************************************)
pS == Abs(<<nS>>)
pL == Abs(<<nL>>)
pSA == Abs(<<nS, nA>>)
pSB == Abs(<<nS, nB>>)
pHA == Abs(<<nH, nA>>)
pHB == Abs(<<nH, nB>>)

NoFiles == [l \in {} |-> Dir]

\* The store /s, the home directory /h, and /l, a symlink to the store.
BaseFS == (<<nS>> :> Dir) @@ (<<nH>> :> Dir) @@ (<<nL>> :> Link(pS))

StoreA == {NoFiles, <<nS, nA>> :> File("sa"), <<nS, nA>> :> Dir}
StoreB == {NoFiles, <<nS, nB>> :> File("sb")}
HomeA == {NoFiles, <<nH, nA>> :> File("ha"), <<nH, nA>> :> Dir,
          <<nH, nA>> :> Link(pSA), <<nH, nA>> :> Link(pSB)}
HomeB == {NoFiles, <<nH, nB>> :> File("hb")}

InitFS == {BaseFS @@ sa @@ sb @@ ha @@ hb :
             sa \in StoreA, sb \in StoreB, ha \in HomeA, hb \in HomeB}

\* Manifests as a user writes them (store-relative keys, "~" targets) and as
\* add writes them (absolute keys and targets).
NoEntries == [k \in {} |-> NoPath]
EntryA == {NoEntries, Rel(<<nA>>) :> Rel(<<nTilde, nA>>), pSA :> pHA}
EntryB == {NoEntries, Rel(<<nB>>) :> Abs(<<nH, nA, nB>>), Rel(<<nB>>) :> Abs(<<nS, nA, nB>>),
           pSB :> Abs(<<nH, Dot, nB>>)}
InitEntries == {ea @@ eb : ea \in EntryA, eb \in EntryB}
InitRoots == {Some(pS)}

\* What the user may pass on the command line.
AddCandidates == {pHA, pHB}
AddRoots == {None, Some(pL), Some(Rel(<<nS>>))}
UnlinkCandidates == {pHA, pHB, pSA, pSB}

\* Invocations per behaviour, and patterns per invocation.
MaxRuns == 2
MaxPatterns == 1

SeqsUpTo(S, n) == UNION {[1..k -> S] : k \in 1..n}
Perms(S) == {o \in [1..Cardinality(S) -> S] : \A i, j \in 1..Cardinality(S) : o[i] = o[j] => i = j}

VARIABLES
  fs,    \* the filesystem
  disk,  \* the manifest file
  hist   \* the invocations so far: command, arguments, state before, outcome

vars == <<fs, disk, hist>>

Init ==
  /\ fs \in InitFS
  /\ disk \in {[root |-> r, entries |-> e] : r \in InitRoots, e \in InitEntries}
  /\ hist = << >>

\* main: load the manifest, run the command, exit.
Ran(cmd, patterns, root, order, st) ==
  /\ fs' = st.fs
  /\ disk' = st.disk
  /\ hist' = Append(hist, [cmd |-> cmd, patterns |-> patterns, root |-> root, order |-> order,
                           pre |-> [fs |-> fs, disk |-> disk], mem |-> st.cfg,
                           flag |-> st.flag, err |-> st.err, writes |-> st.writes,
                           outs |-> st.outs])

Fix ==
  /\ Len(hist) < MaxRuns
  /\ \E order \in Perms(DOMAIN disk.entries) :
       Ran("fix", << >>, None, order, fix(Begin(fs, disk), order))

Validate ==
  /\ Len(hist) < MaxRuns
  /\ \E order \in Perms(DOMAIN disk.entries) :
       Ran("validate", << >>, None, order, validate(Begin(fs, disk), order))

Add ==
  /\ Len(hist) < MaxRuns
  /\ \E targets \in SeqsUpTo(AddCandidates, MaxPatterns), root \in AddRoots :
       Ran("add", targets, root, << >>, add(Begin(fs, disk), targets, root))

Unlink ==
  /\ Len(hist) < MaxRuns
  /\ \E patterns \in SeqsUpTo(UnlinkCandidates, MaxPatterns),
        order \in Perms(DOMAIN disk.entries) :
       Ran("unlink", patterns, None, order, unlink(Begin(fs, disk), patterns, order))

Next == Fix \/ Validate \/ Add \/ Unlink

Spec == Init /\ [][Next]_vars

\* The checking commands alone, on more manifests: the root given through a
\* symlink or left to the environment, and a key as add writes it when its
\* root is given through the symlink.
FixRoots == {Some(pS), Some(pL), None}
FixEntryA == EntryA \cup {Abs(<<nL, nA>>) :> pHA}
FixEntries == {ea @@ eb : ea \in FixEntryA, eb \in EntryB}

InitFix ==
  /\ fs \in InitFS
  /\ disk \in {[root |-> r, entries |-> e] : r \in FixRoots, e \in FixEntries}
  /\ hist = << >>

NextFix == Fix \/ Validate

SpecFix == InitFix /\ [][NextFix]_vars

(***************************************************************************)
(* Properties.                                                             *)
(***************************************************************************)
Runs == Len(hist)
LastRun == hist[Len(hist)]

\* The source and the home-expanded target of an entry, as the spec's state
\* table names them, and the root an add used.
SourceOf(f, d, key) == join(get_root(f, d).path, clean(key))
TargetOf(d, key) == PathBuf_from(expand_tilde(clean(d.entries[key])))
RootUsed(run) ==
  IF run.root.some THEN run.root.path ELSE get_root(run.pre.fs, run.pre.disk).path
IsRegularFile(f, p) == Lstat(f, p).err = "ok" /\ NodeAt(f, Lstat(f, p).loc).kind = "file"
Accepted(run) ==
  /\ run.cmd = "add" /\ run.err = "ok" /\ Len(run.patterns) = 1
  /\ IsRegularFile(run.pre.fs, run.patterns[1])
  /\ Len(run.outs) = 1 /\ run.outs[1].out \in {"added", "added_nolink"}

\* C1: add of an existing file P and then unlink of P leaves the original
\* file, with its content, at P's original location, no file for it in the
\* store, and the manifest's entries as they were before the add.
C1_RoundTrip ==
  (/\ Runs = 2 /\ Accepted(hist[1])
   /\ hist[2].cmd = "unlink" /\ hist[2].patterns = hist[1].patterns)
  => LET P == hist[1].patterns[1]
         f0 == hist[1].pre.fs
         at == Lstat(f0, P).loc
         dest == join(RootUsed(hist[1]), Rel(<<file_name(P)>>))
     IN  /\ at \in DOMAIN fs /\ fs[at] = f0[at]
         /\ Lstat(fs, dest).err # "ok"
         /\ disk.entries = hist[1].pre.disk.entries

\* C2: unlink leaves every non-symlink object that occupies the target of a
\* matched entry as it was.
Processed(run) == {run.outs[i].item : i \in 1..Len(run.outs)}
C2_UnlinkKeepsNonSymlinkTarget ==
  (Runs >= 1 /\ LastRun.cmd = "unlink")
  => \A key \in Processed(LastRun) :
       LET f0 == LastRun.pre.fs
           t == clean(TargetOf(LastRun.pre.disk, key))
           at == Lstat(f0, t)
       IN  (at.err = "ok" /\ NodeAt(f0, at.loc).kind # "link")
           => \A l \in Subtree(f0, at.loc) : l \in DOMAIN fs /\ fs[l] = f0[l]

\* C3: add of a file whose base name is that of the store file of an entry
\* the manifest already holds changes nothing.
C3_CollisionRejected ==
  (/\ Runs >= 1 /\ LastRun.cmd = "add" /\ Len(LastRun.patterns) = 1
   /\ exists(LastRun.pre.fs, LastRun.patterns[1]))
  => LET f0 == LastRun.pre.fs
         d0 == LastRun.pre.disk
         P == canonicalize(f0, LastRun.patterns[1]).path
         dest == join(canonicalize(f0, RootUsed(LastRun)).path, Rel(<<file_name(P)>>))
     IN  (/\ \E key \in DOMAIN d0.entries : SourceOf(f0, d0, key) = dest
          /\ exists(f0, dest) /\ P # dest)
         => fs = f0 /\ disk = d0

\* C4: a second fix, run on what a completed first fix left, changes nothing.
C4_FixIdempotent ==
  (/\ Runs = 2 /\ hist[1].cmd = "fix" /\ hist[1].err = "ok" /\ hist[2].cmd = "fix")
  => fs = hist[2].pre.fs

\* The state of an entry by the spec's table.
SpecState(f, d, key) ==
  LET source == SourceOf(f, d, key)
      m == symlink_metadata(f, TargetOf(d, key))
  IN  IF ~exists(f, source) THEN "SourceMissing"
      ELSE IF m.err # "ok" THEN "TargetMissing"
      ELSE IF m.kind # "link" THEN "Conflict"
      ELSE IF read_link(f, TargetOf(d, key)).val = source THEN "CorrectLink"
      ELSE "MismatchedLink"
Failing == {"SourceMissing", "MismatchedLink", "Conflict"}

\* An entry whose target holds, before the run, a non-symlink object or a
\* symlink to something other than the source.
Occupied(f, d, key) ==
  LET m == symlink_metadata(f, TargetOf(d, key))
  IN  m.err = "ok" /\ (m.kind = "link" => read_link(f, TargetOf(d, key)).val # SourceOf(f, d, key))

\* C5 (as stated): fix leaves the object at an occupied target identical, a
\* directory with the same set of children, and creates objects only where
\* nothing was.
C5_FixPreservesExactly ==
  (Runs >= 1 /\ LastRun.cmd = "fix")
  => LET f0 == LastRun.pre.fs
         d0 == LastRun.pre.disk
     IN  /\ \A key \in DOMAIN d0.entries :
              Occupied(f0, d0, key)
              => LET at == Lstat(f0, TargetOf(d0, key)).loc
                 IN  /\ Lstat(fs, TargetOf(d0, key)).loc = at
                     /\ NodeAt(fs, at) = NodeAt(f0, at)
                     /\ Children(fs, at) = Children(f0, at)
         /\ \A l \in DOMAIN f0 : l \in DOMAIN fs /\ fs[l] = f0[l]

\* C5 (amended): fix leaves the object at an occupied target identical and
\* every object beneath a directory as it was; the directory may gain new
\* children; fix creates objects only where nothing was.
C5_FixPreserves ==
  (Runs >= 1 /\ LastRun.cmd = "fix")
  => LET f0 == LastRun.pre.fs
         d0 == LastRun.pre.disk
     IN  /\ \A key \in DOMAIN d0.entries :
              Occupied(f0, d0, key)
              => LET at == Lstat(f0, TargetOf(d0, key)).loc
                 IN  /\ Lstat(fs, TargetOf(d0, key)).loc = at
                     /\ NodeAt(fs, at) = NodeAt(f0, at)
                     /\ Children(f0, at) \subseteq Children(fs, at)
                     /\ \A l \in Subtree(f0, at) : l \in DOMAIN fs /\ fs[l] = f0[l]
         /\ \A l \in DOMAIN f0 : l \in DOMAIN fs /\ fs[l] = f0[l]

\* A fix that met a mismatched link and a conflicting directory, created a
\* link for another entry, and so changed the filesystem.
C5_Witness ==
  /\ Runs >= 1 /\ LastRun.cmd = "fix" /\ fs # LastRun.pre.fs
  /\ \E i \in 1..Len(LastRun.outs) : LastRun.outs[i].out \in {"conflict", "mismatch"}
  /\ \E key \in DOMAIN LastRun.pre.disk.entries :
       /\ Occupied(LastRun.pre.fs, LastRun.pre.disk, key)
       /\ LET at == Lstat(LastRun.pre.fs, TargetOf(LastRun.pre.disk, key)).loc
          IN  Children(fs, at) # Children(LastRun.pre.fs, at)

\* C6: validate changes no filesystem object and neither the manifest in
\* memory nor the one on disk.
C6_ValidatePure ==
  (Runs >= 1 /\ LastRun.cmd = "validate")
  => /\ fs = LastRun.pre.fs
     /\ disk = LastRun.pre.disk
     /\ LastRun.mem = LastRun.pre.disk
     /\ LastRun.writes = 0

\* A validate that met an entry fix would repair, next to a failing one.
C6_Witness ==
  /\ Runs >= 1 /\ LastRun.cmd = "validate" /\ ~LastRun.flag
  /\ \E i \in 1..Len(LastRun.outs) : LastRun.outs[i].out = "missing_target"

\* C7: validate's flag is true exactly when no entry is SourceMissing,
\* MismatchedLink or Conflict by the spec's table.
C7_ValidateFlag ==
  (Runs >= 1 /\ LastRun.cmd = "validate" /\ LastRun.err = "ok")
  => (LastRun.flag <=>
        \A key \in DOMAIN LastRun.pre.disk.entries :
          SpecState(LastRun.pre.fs, LastRun.pre.disk, key) \notin Failing)

\* C8: the flag of fix is the flag validate computes on the state before fix.
C8_FixAgreesWithValidate ==
  (Runs >= 1 /\ LastRun.cmd = "fix" /\ LastRun.err = "ok")
  => LastRun.flag = validate(Begin(LastRun.pre.fs, LastRun.pre.disk), LastRun.order).flag

\* C9: with distinct targets, every order of the entries gives fix the same
\* final filesystem, the same classification of each entry and the same flag.
OutOf(outs) == {<<outs[i].item, outs[i].out>> : i \in 1..Len(outs)}
C9_FixOrderIndependent ==
  (/\ Runs >= 1 /\ LastRun.cmd = "fix"
   /\ \A j, k \in DOMAIN LastRun.pre.disk.entries :
        TargetOf(LastRun.pre.disk, j) = TargetOf(LastRun.pre.disk, k) => j = k)
  => \A o \in Perms(DOMAIN LastRun.pre.disk.entries) :
       LET other == fix(Begin(LastRun.pre.fs, LastRun.pre.disk), o)
       IN  /\ other.fs = fs
           /\ other.flag = LastRun.flag
           /\ OutOf(other.outs) = OutOf(LastRun.outs)

\* C10: after a successful add of an existing, unmanaged file P with root R
\* the file is at R/basename(P), P is a symlink to R/basename(P), and the
\* manifest, in memory and on disk, has gained exactly the entry
\* (basename(P), P), its key relative to the store root.
Unmanaged(run) ==
  LET P == run.patterns[1]
  IN  /\ \A key \in DOMAIN run.pre.disk.entries :
           /\ TargetOf(run.pre.disk, key) # P
           /\ SourceOf(run.pre.fs, run.pre.disk, key) # P
      /\ ~IsPrefix(canonicalize(run.pre.fs, RootUsed(run)).path.comps, P.comps)
C10_AddPostcondition ==
  (Runs >= 1 /\ Accepted(LastRun) /\ Unmanaged(LastRun))
  => LET P == LastRun.patterns[1]
         f0 == LastRun.pre.fs
         dest == join(RootUsed(LastRun), Rel(<<file_name(P)>>))
         gained == Put(LastRun.pre.disk.entries, Rel(<<file_name(P)>>), P)
     IN  /\ IsRegularFile(fs, dest)
         /\ NodeAt(fs, Lstat(fs, dest).loc) = NodeAt(f0, Lstat(f0, P).loc)
         /\ read_link(fs, P).err = "ok" /\ read_link(fs, P).val = dest
         /\ Rel(<<file_name(P)>>) \notin DOMAIN LastRun.pre.disk.entries
         /\ disk.entries = gained
         /\ LastRun.mem.entries = gained

\* The links a run created: the links that no location held before, so
\* neither left where they were nor brought along by a move.
CreatedLinks(run, f) ==
  {l \in DOMAIN f :
     /\ f[l].kind = "link"
     /\ \A x \in DOMAIN run.pre.fs : run.pre.fs[x] # f[l]}

\* C11: every symlink that fix or add creates holds the absolute,
\* canonicalized path of a file in the store.
C11_LinkValueCanonical ==
  (Runs >= 1 /\ LastRun.cmd \in {"fix", "add"})
  => \A l \in CreatedLinks(LastRun, fs) :
       /\ fs[l].val.abs
       /\ canonicalize(fs, fs[l].val).err = "ok"
       /\ canonicalize(fs, fs[l].val).path = fs[l].val
       /\ IsPrefix(get_root(fs, disk).path.comps, fs[l].val.comps)

(***************************************************************************)
(* The process: manifest discovery, parsing, dispatch and exit status.     *)
(***************************************************************************)
\* get_cfg_path and load_cfg.  The manifest document is at the path given
\* (or in the working directory), under the directory the environment
\* names, at both or at neither, and it parses or it does not.
get_cfg_path(d, env) ==
  IF d.at_cfg_path THEN "ok"
  ELSE IF env.some THEN (IF d.at_alt THEN "ok" ELSE "exit1")
  ELSE "exit1"

load_cfg(d) == IF d.parses THEN "ok" ELSE "exit0"

\* main, up to the dispatch: how far the process gets before a command runs.
load(d, env) == IF get_cfg_path(d, env) # "ok" THEN get_cfg_path(d, env) ELSE load_cfg(d)

\* The status the process ends with: exit(n) gives n, a panic 101, an Err
\* returned from main 1 and Ok(()) 0.
exit_status(err) ==
  IF err \in {"ok", "exit0"} THEN 0
  ELSE IF err = "panic" THEN 101
  ELSE 1

nX == <<"x">>
pX == Abs(<<nX>>)
MainRoots == {Some(pS), Some(pX)}
MainEnvs == {None, EnvRoot}

InitMain ==
  /\ fs \in InitFS
  /\ disk \in {[root |-> r, entries |-> e, at_cfg_path |-> h, at_alt |-> a, parses |-> p] :
                 r \in MainRoots, e \in EntryA, h \in BOOLEAN, a \in BOOLEAN, p \in BOOLEAN}
  /\ hist = << >>

Exited(cmd, patterns, root, order, env, st) ==
  /\ fs' = st.fs
  /\ disk' = st.disk
  /\ hist' = Append(hist, [cmd |-> cmd, patterns |-> patterns, root |-> root, order |-> order,
                           env |-> env, pre |-> [fs |-> fs, disk |-> disk], mem |-> st.cfg,
                           flag |-> st.flag, err |-> st.err, writes |-> st.writes,
                           outs |-> st.outs, status |-> exit_status(st.err)])

MainFix ==
  /\ hist = << >>
  /\ \E env \in MainEnvs, order \in Perms(DOMAIN disk.entries) :
       Exited("fix", << >>, None, order, env,
              IF load(disk, env) # "ok" THEN Fail(Begin(fs, disk), load(disk, env))
              ELSE fix(Begin(fs, disk), order))

MainAdd ==
  /\ hist = << >>
  /\ \E env \in MainEnvs, targets \in SeqsUpTo(AddCandidates, MaxPatterns), root \in AddRoots :
       Exited("add", targets, root, << >>, env,
              IF load(disk, env) # "ok" THEN Fail(Begin(fs, disk), load(disk, env))
              ELSE add(Begin(fs, disk), targets, root))

MainUnlink ==
  /\ hist = << >>
  /\ \E env \in MainEnvs, patterns \in SeqsUpTo(UnlinkCandidates, MaxPatterns),
        order \in Perms(DOMAIN disk.entries) :
       Exited("unlink", patterns, None, order, env,
              IF load(disk, env) # "ok" THEN Fail(Begin(fs, disk), load(disk, env))
              ELSE unlink(Begin(fs, disk), patterns, order))

NextMain == MainFix \/ MainAdd \/ MainUnlink

SpecMain == InitMain /\ [][NextMain]_vars

\* The fatal errors of an invocation: no manifest at any of the places
\* looked at, a manifest that does not parse, or a root the command has to
\* resolve and cannot.
ManifestNotFound(run) ==
  ~(run.pre.disk.at_cfg_path \/ (run.env.some /\ run.pre.disk.at_alt))
ManifestParseError(run) == ~run.pre.disk.parses
RootUnresolvable(run) ==
  \/ run.cmd = "fix" /\ get_root(run.pre.fs, run.pre.disk).err # "ok"
  \/ run.cmd = "add" /\ ~run.root.some /\ get_root(run.pre.fs, run.pre.disk).err # "ok"
  \/ run.cmd = "add" /\ run.root.some /\ ~exists(run.pre.fs, run.root.path)
FatalError(run) == ManifestNotFound(run) \/ ManifestParseError(run) \/ RootUnresolvable(run)

\* C12: a fatal error (manifest not found, manifest not parsed, root
\* unresolvable) ends the process with a non-zero status before anything is
\* done, so the filesystem and the manifest are as before; status 0 comes
\* only from a run without fatal error.
C12_FatalExitsNonZero ==
  \A i \in 1..Runs :
    /\ FatalError(hist[i])
         => /\ hist[i].status # 0
            /\ hist[i].outs = << >>
            /\ hist[i].writes = 0
            /\ fs = hist[i].pre.fs /\ disk = hist[i].pre.disk
    /\ hist[i].status = 0 => ~FatalError(hist[i])

(***************************************************************************)
(* One invocation of add or unlink with several patterns, on stores that   *)
(* also hold a directory with a file in it and on manifests that also      *)
(* declare that file.                                                      *)
(***************************************************************************)
MaxBatch == 2

pSAB == Abs(<<nS, nA, nB>>)
BatchStoreA == StoreA \cup {(<<nS, nA>> :> Dir) @@ (<<nS, nA, nB>> :> File("sab"))}
BatchFS == {BaseFS @@ sa @@ sb @@ ha @@ hb :
              sa \in BatchStoreA, sb \in StoreB, ha \in HomeA, hb \in HomeB}
BatchEntryB == EntryB \cup {Rel(<<nA, nB>>) :> pHB}
BatchEntries == {ea @@ eb : ea \in EntryA, eb \in BatchEntryB}

InitBatch ==
  /\ fs \in BatchFS
  /\ disk \in {[root |-> r, entries |-> e] : r \in InitRoots, e \in BatchEntries}
  /\ hist = << >>

AddBatch ==
  /\ hist = << >>
  /\ \E targets \in SeqsUpTo(AddCandidates, MaxBatch), root \in AddRoots :
       Ran("add", targets, root, << >>, add(Begin(fs, disk), targets, root))

UnlinkBatch ==
  /\ hist = << >>
  /\ \E patterns \in SeqsUpTo(UnlinkCandidates, MaxBatch),
        order \in Perms(DOMAIN disk.entries) :
       Ran("unlink", patterns, None, order, unlink(Begin(fs, disk), patterns, order))

NextBatch == AddBatch \/ UnlinkBatch

SpecBatch == InitBatch /\ [][NextBatch]_vars

\* The candidates an add took in, in order, and the manifest with the entry
\* of each of the first n of them.
AddedItems(run) ==
  SelectSeq(run.outs, LAMBDA o : o.out \in {"added", "added_nolink"})

RECURSIVE WithAdded(_, _, _)
WithAdded(m, root, items) ==
  IF items = << >> THEN m
  ELSE WithAdded(Put(m, join(root, Rel(<<file_name(Head(items).item)>>)), Head(items).item),
                 root, Tail(items))

\* C13: add writes the manifest once for each candidate it takes in and for
\* no other, so that when the batch stops on an I/O failure the manifest on
\* disk holds the entries of all candidates taken in before the failing one.
C13_AddPersistsPerCandidate ==
  \A i \in 1..Runs :
    hist[i].cmd = "add"
    => /\ hist[i].writes = Len(AddedItems(hist[i]))
       /\ (i = Runs /\ hist[i].writes > 0)
            => disk = [hist[i].pre.disk EXCEPT
                         !.entries = WithAdded(@, RootUsed(hist[i]), AddedItems(hist[i]))]
       /\ (i = Runs /\ hist[i].writes = 0) => disk = hist[i].pre.disk

\* A batch that took a candidate in, skipped or rejected none of the rest and
\* then stopped on an I/O failure.
C13_Witness ==
  /\ Runs = 1 /\ LastRun.cmd = "add"
  /\ LastRun.err # "ok"
  /\ Len(LastRun.outs) = 2
  /\ LastRun.outs[1].out = "added"
  /\ LastRun.outs[2].out = "io_error"
  /\ DOMAIN disk.entries # DOMAIN LastRun.pre.disk.entries

\* The entries an unlink run matches: those whose key, or whose expanded and
\* cleaned target, is among the paths the patterns resolve to.
Matches(run) == targets_to_process(run.pre.fs, expand_all(run.pre.fs, run.patterns))
Matching(run) ==
  {key \in DOMAIN run.pre.disk.entries :
     \/ key \in Matches(run)
     \/ clean(PathBuf_from(expand_tilde(run.pre.disk.entries[key]))) \in Matches(run)}

\* C14: unlink writes the manifest at most once, only after every matching
\* entry has been processed without failure, and the write removes exactly
\* the keys of the matching entries; an invocation that fails, or that
\* matches nothing, leaves the manifest on disk as it was.
C14_UnlinkCommitsOnce ==
  \A i \in 1..Runs :
    hist[i].cmd = "unlink"
    => /\ hist[i].writes <= 1
       /\ hist[i].writes = 1
            => /\ hist[i].err = "ok"
               /\ Processed(hist[i]) = Matching(hist[i])
               /\ \A j \in 1..Len(hist[i].outs) : hist[i].outs[j].out # "io_error"
               /\ i = Runs => disk = [hist[i].pre.disk EXCEPT
                                        !.entries = Remove(@, Matching(hist[i]))]
       /\ (hist[i].err # "ok" \/ Matching(hist[i]) = {})
            => /\ hist[i].writes = 0
               /\ i = Runs => disk = hist[i].pre.disk
       /\ (hist[i].err = "ok" /\ Matching(hist[i]) # {}) => hist[i].writes = 1

\* An unlink that moved one matching entry back and then failed on the next.
C14_Witness ==
  /\ Runs = 1 /\ LastRun.cmd = "unlink"
  /\ LastRun.err # "ok"
  /\ Len(LastRun.outs) = 2
  /\ LastRun.outs[1].out \in {"removed_moved", "nolink_moved", "warned_moved"}
  /\ LastRun.outs[2].out = "io_error"
  /\ fs # LastRun.pre.fs
  /\ disk = LastRun.pre.disk

\* An entry fix can repair: its source exists and nothing is at its target.
TargetAbsent(f, d, key) ==
  /\ exists(f, SourceOf(f, d, key))
  /\ Lstat(f, TargetOf(d, key)).err = "ENOENT"

\* The entry's target holds a symlink whose value is the entry's source.
Repaired(f, d, key) ==
  /\ read_link(f, TargetOf(d, key)).err = "ok"
  /\ read_link(f, TargetOf(d, key)).val = SourceOf(f, d, key)

\* Another entry's target lies on the way to this entry's target or beneath it.
TargetNested(d, key) ==
  \E j \in DOMAIN d.entries \ {key} :
    \/ IsPrefix(TargetOf(d, j).comps, TargetOf(d, key).comps)
    \/ IsPrefix(TargetOf(d, key).comps, TargetOf(d, j).comps)

\* What a completed fix, and the validate after it, owe to the entries in
\* `keys` that could be repaired before the fix.
FixRepairs(keys(_)) ==
  /\ (Runs >= 1 /\ LastRun.cmd = "fix" /\ LastRun.err = "ok")
       => \A key \in keys(LastRun) : Repaired(fs, disk, key)
  /\ (/\ Runs = 2 /\ hist[1].cmd = "fix" /\ hist[1].err = "ok"
      /\ hist[2].cmd = "validate")
       => \A key \in keys(hist[1]) : <<key, "ok">> \in OutOf(hist[2].outs)

Repairable(run) ==
  {key \in DOMAIN run.pre.disk.entries : TargetAbsent(run.pre.fs, run.pre.disk, key)}
RepairableApart(run) ==
  {key \in Repairable(run) : ~TargetNested(run.pre.disk, key)}

StoreKept(run, f, key) ==
  LET source == SourceOf(run.pre.fs, run.pre.disk, key)
      was == Lstat(run.pre.fs, source)
  IN  was.err = "ok"
      => /\ Lstat(f, source) = was
         /\ NodeAt(f, was.loc) = NodeAt(run.pre.fs, was.loc)

\* The locations the processing of a matching entry moves, removes or
\* replaces: its source, as unlink reads the key, and its target.
Handled(run, key) ==
  LET source == Lstat(run.pre.fs, key)
      target == Lstat(run.pre.fs, clean(PathBuf_from(expand_tilde(run.pre.disk.entries[key]))))
  IN  (IF source.err = "ok" THEN {source.loc} ELSE {})
        \cup (IF target.err = "ok" \/ (target.err = "ENOENT" /\ target.atLast)
              THEN {target.loc} ELSE {})

\* The store file of the entry is neither at nor beneath such a location.
StoreApart(run, key) ==
  LET was == Lstat(run.pre.fs, SourceOf(run.pre.fs, run.pre.disk, key))
  IN  \A m \in Matching(run) : \A l \in Handled(run, m) : ~IsPrefix(l, was.loc)

\* What unlink owes to the entries it does not match: nothing at all changes
\* when no entry matches, and otherwise each non-matching entry in `keys`
\* stays in the manifest with its store file in place.
UnlinkFrame(keys(_)) ==
  (Runs >= 1 /\ LastRun.cmd = "unlink")
  => /\ Matching(LastRun) = {}
          => /\ fs = LastRun.pre.fs
             /\ disk = LastRun.pre.disk
             /\ LastRun.writes = 0
     /\ \A key \in DOMAIN LastRun.pre.disk.entries \ Matching(LastRun) :
          /\ key \in DOMAIN disk.entries
          /\ disk.entries[key] = LastRun.pre.disk.entries[key]
          /\ key \in keys(LastRun) => StoreKept(LastRun, fs, key)

AllKeys(run) == DOMAIN run.pre.disk.entries
ApartKeys(run) == {key \in DOMAIN run.pre.disk.entries : StoreApart(run, key)}

\* C16 (as stated): an unlink that matches no entry changes no filesystem
\* object and does not write the manifest; an unlink that matches some
\* leaves every non-matching entry in the manifest and its store file in
\* place.
C16_UnlinkFrameEvery == UnlinkFrame(AllKeys)

\* C16 (amended): the store file stays in place when it is neither at nor
\* beneath the source or the target of a matching entry.
C16_UnlinkFrameApart == UnlinkFrame(ApartKeys)

\* An unlink that moved a matching entry back and left another entry, whose
\* store file exists, alone.
C16_Witness ==
  /\ Runs = 1 /\ LastRun.cmd = "unlink" /\ LastRun.err = "ok"
  /\ fs # LastRun.pre.fs
  /\ \E key \in ApartKeys(LastRun) \ Matching(LastRun) :
       Lstat(fs, SourceOf(LastRun.pre.fs, LastRun.pre.disk, key)).err = "ok"

(***************************************************************************)
(* expand_tilde alone, on the targets a manifest may declare.              *)
(***************************************************************************)
MaxComps == 2

\* File names with the home marker at the start, at the end, and without it.
nATilde == <<"a", "~">>
nTildeA == <<"~", "a">>
TildeNames == {nTilde, nA, nH, nATilde, nTildeA}
TildeTargets ==
  {[abs |-> a, comps |-> cs] : a \in BOOLEAN, cs \in SeqsUpTo(TildeNames, MaxComps)}

InitTilde ==
  /\ fs = BaseFS
  /\ disk \in {[root |-> Some(pS), entries |-> (Rel(<<nA>>) :> t)] : t \in TildeTargets}
  /\ hist = << >>

\* The call as fix, validate and unlink make it on the target of an entry.
ExpandTilde ==
  /\ hist = << >>
  /\ \E key \in DOMAIN disk.entries :
       hist' = Append(hist, [cmd |-> "expand_tilde", path |-> disk.entries[key],
                             text |-> expand_tilde(disk.entries[key])])
  /\ UNCHANGED <<fs, disk>>

SpecTilde == InitTilde /\ [][ExpandTilde]_vars

\* C17: a "~" that leads the target becomes the home directory, and nothing
\* else of the text changes; a target that "~" does not lead comes back as
\* it is, also when a "~" stands later in the path or in a file name.
C17_ExpandsLeadingOnly ==
  \A i \in 1..Runs :
    hist[i].cmd = "expand_tilde"
    => LET str == to_str(hist[i].path)
       IN  hist[i].text = IF Head(str) = "~" THEN Home \o Tail(str) ELSE str

\* The key under which an add run declared the one candidate it took in.
AddedKey(run) == join(RootUsed(run), Rel(<<file_name(run.outs[1].item)>>))

\* C18: a fix run after a successful add, with the configured root or with a
\* root override, classifies the entry the add declared as a correct link
\* and changes nothing in the filesystem or the manifest.
C18_FixAcceptsAdded ==
  (/\ Runs = 2
   /\ hist[1].cmd = "add" /\ hist[1].err = "ok"
   /\ Len(hist[1].outs) = 1 /\ hist[1].outs[1].out = "added"
   /\ hist[2].cmd = "fix" /\ hist[2].err = "ok")
  => /\ <<AddedKey(hist[1]), "ok">> \in OutOf(hist[2].outs)
     /\ \A l \in CreatedLinks(hist[2], fs) : fs[l].val # SourceOf(fs, disk, AddedKey(hist[1]))
     /\ disk = hist[2].pre.disk

\* C19: when an object already is in the store at root/basename(candidate),
\* with or without an entry for it in the manifest, add does not move the
\* candidate onto it: the object of the store and the candidate are, after
\* the run, what and where they were.
C19_AddKeepsStored ==
  (Runs >= 1 /\ LastRun.cmd = "add" /\ Len(LastRun.patterns) = 1)
  => LET f0 == LastRun.pre.fs
         P == LastRun.patterns[1]
         from == Stat(f0, P)
         dest == join(RootUsed(LastRun), Rel(<<file_name(Abs(from.loc))>>))
         at == Lstat(f0, dest)
     IN  (/\ from.err = "ok" /\ from.loc # << >>
          /\ exists(f0, RootUsed(LastRun))
          /\ at.err = "ok" /\ at.loc # from.loc)
         => /\ at.loc \in DOMAIN fs /\ fs[at.loc] = f0[at.loc]
            /\ from.loc \in DOMAIN fs /\ fs[from.loc] = f0[from.loc]

====
